---------------------------- MODULE Spec2Model ----------------------------
(***************************************************************************)
(* Model of the Cohere provider adapter,                                   *)
(* tensorzero_internal/src/inference/providers/cohere.rs:                  *)
(*   - CohereRequest::new and its serde serialization,                     *)
(*   - CohereCredentials::get_api_key,                                     *)
(*   - CohereProvider::infer as a per-call state machine whose steps are   *)
(*     the statements of the function and whose suspension points are the  *)
(*     two .await's on the network (send, text).                           *)
(***************************************************************************)
EXTENDS Integers, Sequences, FiniteSets, TLC

VARIABLES
    credentials,       \* CohereProvider.credentials
    pc,                \* per call: position in infer
    request,           \* per call: the ModelInferenceRequest argument
    dynamic_api_keys,  \* per call: the InferenceCredentials argument
    request_body,      \* per call: local request_body (Option<CohereRequest>)
    api_key,           \* per call: local api_key (Option<SecretString>)
    sends,             \* per call: number of .send() issued on http_client
    sent,              \* per call: the HTTP request put on the wire (Option)
    res,               \* per call: local res, the reqwest::Response (Option)
    response,          \* per call: local response, the body text (Option)
    result,            \* per call: value infer evaluates to
    answers,           \* per call: what each .await on the network yielded, in order
    resolutions        \* results of successive get_api_key calls (resolution-only runs)

vars == <<credentials, pc, request, dynamic_api_keys, request_body, api_key,
          sends, sent, res, response, result, answers, resolutions>>

-----------------------------------------------------------------------------
(* Bounds of the model *)

\* number of distinct secret values
NumSecrets == 2

\* number of repeated get_api_key resolutions in the resolution-only runs
MaxResolutions == 3

-----------------------------------------------------------------------------
(* Option<T>, Result<T, E> *)

None == <<>>

Some(v) == <<v>>

IsSome(o) == Len(o) = 1

Unwrap(o) == o[1]

Ok(v) == [kind |-> "Ok", value |-> v]

Err(d) == [kind |-> "Err", details |-> d]

\* a u32 value, as returned in Ok by infer (Result<u32, Error>)
U32(n) == [type |-> "u32", val |-> n]

-----------------------------------------------------------------------------
(* Credentials *)

\* secrecy::SecretString
SecretString(i) == [inner |-> i]

\* secrecy::ExposeSecret::expose_secret
expose_secret(s) == s.inner

Secrets == {SecretString(i) : i \in 1..NumSecrets}

KeyNames == {"cohere_key", "other_key"}

Static(key) == [variant |-> "Static", key |-> key]

Dynamic(key_name) == [variant |-> "Dynamic", key_name |-> key_name]

CredNone == [variant |-> "None"]

CohereCredentials ==
    {Static(s) : s \in Secrets} \cup {Dynamic(n) : n \in KeyNames} \cup {CredNone}

\* InferenceCredentials = HashMap<String, SecretString>
InferenceCredentials == UNION {[D -> Secrets] : D \in SUBSET KeyNames}

\* HashMap::get
HashMapGet(m, k) == IF k \in DOMAIN m THEN Some(m[k]) ELSE None

ApiKeyMissing == [variant |-> "ApiKeyMissing", provider_name |-> "Cohere"]

\* get_api_key with the None arm answering an empty key instead of failing
get_api_key_NoneAsEmptyKey(self, keys) ==
    CASE self.variant = "Static" -> Ok(self.key)
      [] self.variant = "Dynamic" ->
            IF IsSome(HashMapGet(keys, self.key_name))
            THEN Ok(Unwrap(HashMapGet(keys, self.key_name)))
            ELSE Err(ApiKeyMissing)
      [] self.variant = "None" -> Ok(SecretString(0))

\* get_api_key with the Dynamic arm looking up a fixed name instead of key_name
get_api_key_FixedName(self, keys) ==
    CASE self.variant = "Static" -> Ok(self.key)
      [] self.variant = "Dynamic" ->
            IF IsSome(HashMapGet(keys, "cohere_key"))
            THEN Ok(Unwrap(HashMapGet(keys, "cohere_key")))
            ELSE Err(ApiKeyMissing)
      [] self.variant = "None" -> Err(ApiKeyMissing)

\* get_api_key with the Static arm letting a table entry override the held key
get_api_key_TableOverridesStatic(self, keys) ==
    CASE self.variant = "Static" ->
            IF IsSome(HashMapGet(keys, "cohere_key"))
            THEN Ok(Unwrap(HashMapGet(keys, "cohere_key")))
            ELSE Ok(self.key)
      [] self.variant = "Dynamic" ->
            IF IsSome(HashMapGet(keys, self.key_name))
            THEN Ok(Unwrap(HashMapGet(keys, self.key_name)))
            ELSE Err(ApiKeyMissing)
      [] self.variant = "None" -> Err(ApiKeyMissing)

get_api_key(self, keys) ==
    CASE self.variant = "Static" -> Ok(self.key)
      [] self.variant = "Dynamic" ->
            IF IsSome(HashMapGet(keys, self.key_name))
            THEN Ok(Unwrap(HashMapGet(keys, self.key_name)))
            ELSE Err(ApiKeyMissing)
      [] self.variant = "None" -> Err(ApiKeyMissing)

-----------------------------------------------------------------------------
(* The canonical request and the vendor request *)

\* CohereProvider.model_name
model_name == "command-r"

\* the messages of a ModelInferenceRequest (never empty)
MessageLists ==
    { << [role |-> "User", content |-> "hi"],
         [role |-> "Assistant", content |-> "hello"],
         [role |-> "User", content |-> "What's the weather like?"] >> }

\* the tool configuration of a request: none, tools offered, tools required
ToolConfigs == {None, Some("auto"), Some("required")}

ModelInferenceRequests ==
    [ messages          : MessageLists,
      temperature       : {None, Some(5)},
      max_tokens        : {None, Some(100)},
      seed              : {None, Some(7)},
      top_p             : {None, Some(9)},
      frequency_penalty : {None, Some(2)},
      presence_penalty  : {None, Some(3)},
      stream            : BOOLEAN,
      tool_config       : ToolConfigs ]

\* openai::prepare_openai_messages: one vendor message per message, in order
prepare_openai_messages(req) ==
    [i \in DOMAIN req.messages |->
        [role |-> IF req.messages[i].role = "User" THEN "user" ELSE "assistant",
         content |-> req.messages[i].content]]

\* CohereRequest::new refusing a request that requires tools
CohereRequest_new_RejectsRequiredTools(model, req) ==
    IF req.tool_config = Some("required")
    THEN Err([variant |-> "Config",
              message |-> "Tool calling is not supported by the Cohere provider"])
    ELSE Ok([ messages          |-> prepare_openai_messages(req),
              model             |-> model,
              stream            |-> Some(req.stream),
              temperature       |-> req.temperature,
              max_tokens        |-> req.max_tokens,
              seed              |-> req.seed,
              top_p             |-> req.top_p,
              frequency_penalty |-> req.frequency_penalty,
              logprop           |-> None,
              tools             |-> None,
              tool_choice       |-> None,
              strict_tools      |-> None,
              k                 |-> None,
              presence_penalty  |-> None,
              stop_sequence     |-> None ])

CohereRequest_new(model, req) ==
    Ok([ messages          |-> prepare_openai_messages(req),
         model             |-> model,
         stream            |-> Some(req.stream),
         temperature       |-> req.temperature,
         max_tokens        |-> req.max_tokens,
         seed              |-> req.seed,
         top_p             |-> req.top_p,
         frequency_penalty |-> req.frequency_penalty,
         logprop           |-> None,
         tools             |-> None,
         tool_choice       |-> None,
         strict_tools      |-> None,
         k                 |-> None,
         presence_penalty  |-> None,
         stop_sequence     |-> None ])

\* the fields of struct CohereRequest, in declaration order
CohereRequestFields ==
    << "messages", "model", "stream", "max_tokens", "stop_sequence",
       "temperature", "seed", "frequency_penalty", "presence_penalty", "k",
       "top_p", "logprop", "tools", "tool_choice", "strict_tools" >>

\* the fields of type Option<_>
OptionFields ==
    { "stream", "max_tokens", "stop_sequence", "temperature", "seed",
      "frequency_penalty", "presence_penalty", "k", "top_p", "logprop",
      "tools", "tool_choice", "strict_tools" }

\* the skip attribute forgotten on temperature and seed
SkipSerializingIfNone_Forgotten ==
    { "max_tokens", "stop_sequence",
      "frequency_penalty", "presence_penalty", "k", "top_p", "logprop",
      "tools", "tool_choice", "strict_tools" }

\* the fields carrying #[serde(skip_serializing_if = "Option::is_none")]
SkipSerializingIfNone ==
    { "max_tokens", "stop_sequence", "temperature", "seed",
      "frequency_penalty", "presence_penalty", "k", "top_p", "logprop",
      "tools", "tool_choice", "strict_tools" }

\* the JSON value serde writes for one field: null for a None that is not skipped
JsonValue(field, r) ==
    IF field \in OptionFields
    THEN IF IsSome(r[field]) THEN Unwrap(r[field]) ELSE "null"
    ELSE r[field]

\* #[derive(Serialize)] + serde_json::to_string: the members of the JSON
\* object, in order, as <<name, value>> pairs
serde_json_to_string(r) ==
    LET members == [i \in 1..Len(CohereRequestFields) |->
                       << CohereRequestFields[i], JsonValue(CohereRequestFields[i], r) >>]
        kept(m) == ~(m[1] \in SkipSerializingIfNone /\ ~IsSome(r[m[1]]))
    IN  SelectSeq(members, kept)

\* the names of the members of a serialized JSON object
MemberNames(json) == {json[i][1] : i \in DOMAIN json}

\* RequestBuilder::bearer_auth
bearer_auth(token) == << "Bearer", token >>

-----------------------------------------------------------------------------
(* The vendor response *)

\* reqwest::StatusCode values the backend answers with
Statuses == {200, 204, 404, 500}

\* StatusCode::is_success
is_success(status) == status >= 200 /\ status <= 299

\* body texts, as token sequences; a JSON object is "{" name value ... "}"
Bodies ==
    { << "not", "json" >>,
      << "internal", "error" >>,
      << "{", "id", "r1", "generations", "hello", "message", "ok", "metadata", "v1", "}" >>,
      << "{", "}" >> }

\* the fields of struct CohereResponse, in declaration order
CohereResponseFields == << "id", "generations", "message", "metadata" >>

IsJsonObject(text) ==
    /\ Len(text) >= 2
    /\ Len(text) % 2 = 0
    /\ text[1] = "{"
    /\ text[Len(text)] = "}"

JsonMembers(text) ==
    [i \in 1..((Len(text) - 2) \div 2) |-> << text[2 * i], text[2 * i + 1] >>]

JsonLookup(text, name) ==
    LET ms == JsonMembers(text)
        i  == CHOOSE j \in DOMAIN ms : ms[j][1] = name
    IN  ms[i][2]

MissingFields(text) ==
    {i \in DOMAIN CohereResponseFields :
        CohereResponseFields[i] \notin MemberNames(JsonMembers(text))}

\* serde_json::from_str::<CohereResponse>
from_str_CohereResponse(text) ==
    IF ~IsJsonObject(text)
    THEN Err(<< "expected value", "line 1 column 1" >>)
    ELSE IF MissingFields(text) # {}
    THEN Err(<< "missing field",
                CohereResponseFields[CHOOSE i \in MissingFields(text) :
                                        \A j \in MissingFields(text) : i <= j] >>)
    ELSE Ok([ id          |-> JsonLookup(text, "id"),
              generations |-> JsonLookup(text, "generations"),
              message     |-> JsonLookup(text, "message"),
              metadata    |-> JsonLookup(text, "metadata") ])

\* reqwest::Error values of a failed send: display text and status()
SendErrors ==
    { [display |-> "connection refused", status |-> None],
      [display |-> "operation timed out", status |-> None],
      [display |-> "bad gateway", status |-> Some(502)] }

\* reqwest::Error values of a failed body read
TextErrors == { [display |-> "error decoding response body"] }

-----------------------------------------------------------------------------
(* Errors built by infer *)

InferenceClient(message, status_code, raw_request, raw_response, provider_type) ==
    [ variant       |-> "InferenceClient",
      message       |-> message,
      status_code   |-> status_code,
      raw_request   |-> raw_request,
      raw_response  |-> raw_response,
      provider_type |-> provider_type ]

InferenceServer(message, raw_request, raw_response, provider_type) ==
    [ variant       |-> "InferenceServer",
      message       |-> message,
      raw_request   |-> raw_request,
      raw_response  |-> raw_response,
      provider_type |-> provider_type ]

\* the closure on .send().await dropping the transport error's status
send_map_err_NoStatus(e, body) ==
    InferenceClient(<< "Error sending request to Cohere: ", e.display >>,
                    None,
                    Some(serde_json_to_string(body)),
                    None,
                    "cohere")

\* the map_err closure on .send().await
send_map_err(e, body) ==
    InferenceClient(<< "Error sending request to Cohere: ", e.display >>,
                    e.status,
                    Some(serde_json_to_string(body)),
                    None,
                    "cohere")

\* the closure on res.text().await of a 2xx response reporting an empty text
text_map_err_EmptyResponse(e, body) ==
    InferenceServer(<< "Error parsing text response: ", e.display >>,
                    Some(serde_json_to_string(body)),
                    Some(<< >>),
                    "cohere")

\* the map_err closure on res.text().await of a 2xx response
text_map_err(e, body) ==
    InferenceServer(<< "Error parsing text response: ", e.display >>,
                    Some(serde_json_to_string(body)),
                    None,
                    "cohere")

\* the map_err closure on serde_json::from_str of the text of a 2xx response
from_str_map_err(e, text, body) ==
    InferenceServer(<< "Error parsing Json response: ", e, ": ", text >>,
                    Some(serde_json_to_string(body)),
                    None,
                    "cohere")

\* the map_err closure on res.text().await of a non-2xx response; reread is
\* what the closure's own res.text().await.unwrap_or_default() yields
error_text_map_err(e, reread) ==
    InferenceServer(<< "Error parsisng error response: ", e.display >>,
                    Some(reread),
                    None,
                    "cohere")

\* String::default(), the value of unwrap_or_default() on a failed read
EmptyText == << >>

\* a block that ends without a tail expression evaluates to ()
Unit == [kind |-> "Unit"]

\* infer has not returned
Pending == [kind |-> "Pending"]

-----------------------------------------------------------------------------
(* CohereProvider::infer, one statement or suspension point per action *)

Calls == DOMAIN pc

\* let request_body = CohereRequest::new(&self.model_name, request)?;
Build(c) ==
    /\ pc[c] = "start"
    /\ LET r == CohereRequest_new(model_name, request[c])
       IN  IF r.kind = "Ok"
           THEN /\ request_body' = [request_body EXCEPT ![c] = Some(r.value)]
                /\ pc' = [pc EXCEPT ![c] = "built"]
                /\ UNCHANGED result
           ELSE /\ result' = [result EXCEPT ![c] = r]
                /\ pc' = [pc EXCEPT ![c] = "done"]
                /\ UNCHANGED request_body
    /\ UNCHANGED <<credentials, request, dynamic_api_keys, api_key, sends, sent,
                   res, response, answers, resolutions>>

\* the key resolved against the table of the first call instead of the call's own
Resolve_SharedTable(c) ==
    /\ pc[c] = "built"
    /\ LET r == get_api_key(credentials, dynamic_api_keys[1])
       IN  IF r.kind = "Ok"
           THEN /\ api_key' = [api_key EXCEPT ![c] = Some(r.value)]
                /\ pc' = [pc EXCEPT ![c] = "resolved"]
                /\ UNCHANGED result
           ELSE /\ result' = [result EXCEPT ![c] = r]
                /\ pc' = [pc EXCEPT ![c] = "done"]
                /\ UNCHANGED api_key
    /\ UNCHANGED <<credentials, request, dynamic_api_keys, request_body, sends,
                   sent, res, response, answers, resolutions>>

\* let api_key = self.credentials.get_api_key(dynamic_api_keys)?;
Resolve(c) ==
    /\ pc[c] = "built"
    /\ LET r == get_api_key(credentials, dynamic_api_keys[c])
       IN  IF r.kind = "Ok"
           THEN /\ api_key' = [api_key EXCEPT ![c] = Some(r.value)]
                /\ pc' = [pc EXCEPT ![c] = "resolved"]
                /\ UNCHANGED result
           ELSE /\ result' = [result EXCEPT ![c] = r]
                /\ pc' = [pc EXCEPT ![c] = "done"]
                /\ UNCHANGED api_key
    /\ UNCHANGED <<credentials, request, dynamic_api_keys, request_body, sends,
                   sent, res, response, answers, resolutions>>

\* http_client.post(..).bearer_auth(api_key.expose_secret())
\*            .json(&request_body).send()      -- the request goes out
Send(c) ==
    /\ pc[c] = "resolved"
    /\ sends' = [sends EXCEPT ![c] = @ + 1]
    /\ sent' = [sent EXCEPT ![c] =
                  Some([ authorization |-> bearer_auth(expose_secret(Unwrap(api_key[c]))),
                         json          |-> serde_json_to_string(Unwrap(request_body[c])) ])]
    /\ pc' = [pc EXCEPT ![c] = "send"]
    /\ UNCHANGED <<credentials, request, dynamic_api_keys, request_body, api_key,
                   res, response, result, answers, resolutions>>

\* a failed send answered by sending once more instead of returning
SendFails_Retry(c) ==
    /\ pc[c] = "send"
    /\ sends[c] < 3
    /\ sends' = [sends EXCEPT ![c] = @ + 1]
    /\ UNCHANGED <<credentials, pc, request, dynamic_api_keys, request_body, api_key,
                   sent, res, response, result, answers, resolutions>>

\* a failed send reported with the bearer token in the message
SendFails_LeakKey(c) ==
    /\ pc[c] = "send"
    /\ \E e \in SendErrors :
          /\ result' = [result EXCEPT ![c] =
                Err(InferenceClient(<< "Error sending request to Cohere: ", e.display,
                                       expose_secret(Unwrap(api_key[c])) >>,
                                    e.status,
                                    Some(serde_json_to_string(Unwrap(request_body[c]))),
                                    None,
                                    "cohere"))]
          /\ answers' = [answers EXCEPT ![c] = Append(@, [await |-> "send", error |-> e])]
    /\ pc' = [pc EXCEPT ![c] = "done"]
    /\ UNCHANGED <<credentials, request, dynamic_api_keys, request_body, api_key,
                   sends, sent, res, response, resolutions>>

\* .send().await fails: .map_err(..)? returns the error
SendFails(c) ==
    /\ pc[c] = "send"
    /\ \E e \in SendErrors :
          /\ result' = [result EXCEPT ![c] = Err(send_map_err(e, Unwrap(request_body[c])))]
          /\ answers' = [answers EXCEPT ![c] = Append(@, [await |-> "send", error |-> e])]
    /\ pc' = [pc EXCEPT ![c] = "done"]
    /\ UNCHANGED <<credentials, request, dynamic_api_keys, request_body, api_key,
                   sends, sent, res, response, resolutions>>

\* .send().await yields a response; if res.status().is_success() picks the branch
SendReturns(c) ==
    /\ pc[c] = "send"
    /\ \E status \in Statuses :
          /\ res' = [res EXCEPT ![c] = Some([status |-> status])]
          /\ answers' = [answers EXCEPT ![c] = Append(@, [await |-> "send", status |-> status])]
          /\ pc' = [pc EXCEPT ![c] = IF is_success(status) THEN "text" ELSE "error_text"]
    /\ UNCHANGED <<credentials, request, dynamic_api_keys, request_body, api_key,
                   sends, sent, response, result, resolutions>>

\* 2xx: res.text().await fails
TextFails(c) ==
    /\ pc[c] = "text"
    /\ \E e \in TextErrors :
          /\ result' = [result EXCEPT ![c] = Err(text_map_err(e, Unwrap(request_body[c])))]
          /\ answers' = [answers EXCEPT ![c] = Append(@, [await |-> "text", error |-> e])]
    /\ pc' = [pc EXCEPT ![c] = "done"]
    /\ UNCHANGED <<credentials, request, dynamic_api_keys, request_body, api_key,
                   sends, sent, res, response, resolutions>>

\* the value of the 2xx branch once the text is read: from_str, then Ok(0)
ParseAndReturn(text, body) ==
    LET r == from_str_CohereResponse(text)
    IN  IF r.kind = "Ok"
        THEN Ok(U32(0))
        ELSE Err(from_str_map_err(r.details, text, body))

\* 2xx: res.text().await yields the text
TextReturns(c) ==
    /\ pc[c] = "text"
    /\ \E text \in Bodies :
          /\ response' = [response EXCEPT ![c] = Some(text)]
          /\ answers' = [answers EXCEPT ![c] = Append(@, [await |-> "text", text |-> text])]
          /\ result' = [result EXCEPT ![c] = ParseAndReturn(text, Unwrap(request_body[c]))]
    /\ pc' = [pc EXCEPT ![c] = "done"]
    /\ UNCHANGED <<credentials, request, dynamic_api_keys, request_body, api_key,
                   sends, sent, res, resolutions>>

\* non-2xx: res.text().await fails; the closure reads res.text() once more
ErrorTextFails(c) ==
    /\ pc[c] = "error_text"
    /\ \E e \in TextErrors, reread \in Bodies \cup {EmptyText} :
          /\ result' = [result EXCEPT ![c] = Err(error_text_map_err(e, reread))]
          /\ answers' = [answers EXCEPT ![c] =
                            @ \o << [await |-> "text", error |-> e],
                                    [await |-> "text", text |-> reread] >>]
    /\ pc' = [pc EXCEPT ![c] = "done"]
    /\ UNCHANGED <<credentials, request, dynamic_api_keys, request_body, api_key,
                   sends, sent, res, response, resolutions>>

\* the value of the non-2xx branch once the text is read: the block binds
\* status_code and response and ends
ErrorBranchValue(status_code, text) == Unit

\* non-2xx: res.text().await yields the text
ErrorTextReturns(c) ==
    /\ pc[c] = "error_text"
    /\ \E text \in Bodies :
          /\ response' = [response EXCEPT ![c] = Some(text)]
          /\ answers' = [answers EXCEPT ![c] = Append(@, [await |-> "text", text |-> text])]
          /\ result' = [result EXCEPT ![c] =
                           ErrorBranchValue(Unwrap(res[c]).status, text)]
    /\ pc' = [pc EXCEPT ![c] = "done"]
    /\ UNCHANGED <<credentials, request, dynamic_api_keys, request_body, api_key,
                   sends, sent, res, resolutions>>

-----------------------------------------------------------------------------
(* One infer call *)

\* the calls ids at the entry of infer, their arguments drawn from the given sets
InitCallsOver(ids, requests, tables) ==
    /\ credentials \in CohereCredentials
    /\ request \in [ids -> requests]
    /\ dynamic_api_keys \in [ids -> tables]
    /\ pc = [c \in ids |-> "start"]
    /\ request_body = [c \in ids |-> None]
    /\ api_key = [c \in ids |-> None]
    /\ sends = [c \in ids |-> 0]
    /\ sent = [c \in ids |-> None]
    /\ res = [c \in ids |-> None]
    /\ response = [c \in ids |-> None]
    /\ result = [c \in ids |-> Pending]
    /\ answers = [c \in ids |-> << >>]
    /\ resolutions = << >>

InitCalls(ids) == InitCallsOver(ids, ModelInferenceRequests, InferenceCredentials)

Init == InitCalls({1})

Next ==
    \/ \E c \in Calls : Build(c)
    \/ \E c \in Calls : Resolve(c)
    \/ \E c \in Calls : Send(c)
    \/ \E c \in Calls : SendFails(c)
    \/ \E c \in Calls : SendReturns(c)
    \/ \E c \in Calls : TextFails(c)
    \/ \E c \in Calls : TextReturns(c)
    \/ \E c \in Calls : ErrorTextFails(c)
    \/ \E c \in Calls : ErrorTextReturns(c)

Spec == Init /\ [][Next]_vars

-----------------------------------------------------------------------------
(* get_api_key called on its own, repeatedly, with the same arguments *)

\* the request of the resolution-only runs (no request is involved)
PlainRequest ==
    [ messages |-> CHOOSE m \in MessageLists : TRUE,
      temperature |-> Some(5), max_tokens |-> None, seed |-> None, top_p |-> None,
      frequency_penalty |-> None, presence_penalty |-> None, stream |-> FALSE,
      tool_config |-> None ]

InitResolve == InitCalls({1}) /\ request[1] = PlainRequest

\* self.credentials.get_api_key(dynamic_api_keys), result kept
ResolveAgain(c) ==
    /\ Len(resolutions) < MaxResolutions
    /\ resolutions' = Append(resolutions, get_api_key(credentials, dynamic_api_keys[c]))
    /\ UNCHANGED <<credentials, pc, request, dynamic_api_keys, request_body, api_key,
                   sends, sent, res, response, result, answers>>

NextResolve == \E c \in Calls : ResolveAgain(c)

SpecResolve == InitResolve /\ [][NextResolve]_vars

-----------------------------------------------------------------------------
(* Two infer calls on the same provider and HTTP client, interleaved at       *)
(* their suspension points                                                    *)

\* the requests of the concurrent calls
ConcurrentRequests ==
    { PlainRequest,
      [PlainRequest EXCEPT !.top_p = Some(9), !.stream = TRUE,
                           !.tool_config = Some("required")] }

\* the tables of the concurrent calls: "cohere_key" absent or bound to a secret
ConcurrentTables == UNION {[D -> Secrets] : D \in SUBSET {"cohere_key"}}

InitConcurrent == InitCallsOver({1, 2}, ConcurrentRequests, ConcurrentTables)

SpecConcurrent == InitConcurrent /\ [][Next]_vars

-----------------------------------------------------------------------------
(* Vocabulary of the properties *)

Done(c) == pc[c] = "done"

\* the response of call c has arrived with a non-2xx status
GotNon2xx(c) == IsSome(res[c]) /\ ~is_success(Unwrap(res[c]).status)

\* the response of call c has arrived with a 2xx status
Got2xx(c) == IsSome(res[c]) /\ is_success(Unwrap(res[c]).status)

\* call c returned Err of the given variant
ReturnedErr(c, variant) ==
    /\ result[c].kind = "Err"
    /\ result[c].details.variant = variant

\* the optional sampling parameters of the canonical request
SamplingParameters ==
    { "temperature", "top_p", "max_tokens", "seed", "frequency_penalty",
      "presence_penalty" }

\* v is the canonical response mapped from the parsed vendor response p
IsCanonicalResponseOf(v, p) ==
    /\ v.type = "ProviderInferenceResponse"
    /\ v.content = p.generations
    /\ v.usage = p.metadata
    /\ v.latency >= 0

-----------------------------------------------------------------------------
(* Properties *)

\* C1: a call whose send returned a non-2xx response returns
\* Err(InferenceServer) whose raw_response is the text of the response body;
\* it never returns Ok and never ends without a returned value.
C1_Non2xxReturnsServerError ==
    \A c \in Calls :
        (Done(c) /\ GotNon2xx(c) /\ IsSome(response[c])) =>
            /\ ReturnedErr(c, "InferenceServer")
            /\ result[c].details.raw_response = response[c]

\* C2: a call that read the text of a 2xx response which does not parse as
\* CohereResponse returns Err(InferenceServer) whose raw_response is that text
\* and whose message names the parse failure.
C2_ParseFailureCarriesText ==
    \A c \in Calls :
        (/\ Done(c) /\ Got2xx(c) /\ IsSome(response[c])
         /\ from_str_CohereResponse(Unwrap(response[c])).kind = "Err") =>
            /\ ReturnedErr(c, "InferenceServer")
            /\ result[c].details.raw_response = response[c]
            /\ Len(result[c].details.message) >= 2
            /\ result[c].details.message[2] =
                   from_str_CohereResponse(Unwrap(response[c])).details

\* C3: with credential None, whatever the request and the table, the call
\* issues no HTTP send, never gets past credential resolution, and returns
\* Err(ApiKeyMissing{provider_name}).
C3_NoneCredentialFailsWithoutSend ==
    \A c \in Calls :
        credentials = CredNone =>
            /\ sends[c] = 0
            /\ sent[c] = None
            /\ pc[c] \in {"start", "built", "done"}
            /\ Done(c) => result[c] = Err([variant |-> "ApiKeyMissing",
                                           provider_name |-> "Cohere"])

C3_Witness ==
    /\ credentials = CredNone
    /\ Done(1)
    /\ DOMAIN dynamic_api_keys[1] = KeyNames
    /\ result[1].kind = "Err"

\* C4: get_api_key on Dynamic(name): with name absent from the table every
\* resolution is Err(ApiKeyMissing); with name present every resolution, however
\* often repeated against the same table, is Ok of the secret stored under name.
C4_DynamicResolution ==
    \A c \in Calls : \A i \in DOMAIN resolutions :
        credentials.variant = "Dynamic" =>
            IF credentials.key_name \in DOMAIN dynamic_api_keys[c]
            THEN /\ resolutions[i].kind = "Ok"
                 /\ resolutions[i].value = dynamic_api_keys[c][credentials.key_name]
            ELSE /\ resolutions[i].kind = "Err"
                 /\ resolutions[i].details.variant = "ApiKeyMissing"

C4_Witness ==
    /\ credentials.variant = "Dynamic"
    /\ DOMAIN dynamic_api_keys[1] = KeyNames
    /\ dynamic_api_keys[1]["cohere_key"] # dynamic_api_keys[1]["other_key"]
    /\ Len(resolutions) = MaxResolutions
    /\ resolutions[1].kind = "Ok"

\* C5: an optional sampling parameter that is unset in the canonical request
\* is not a member of the JSON body put on the wire.
C5_UnsetParametersAbsent ==
    \A c \in Calls :
        IsSome(sent[c]) =>
            \A f \in SamplingParameters :
                request[c][f] = None => f \notin MemberNames(Unwrap(sent[c]).json)

C5_Witness ==
    /\ IsSome(sent[1])
    /\ request[1].temperature = None
    /\ request[1].seed = None
    /\ request[1].top_p # None
    /\ "top_p" \in MemberNames(Unwrap(sent[1]).json)

\* C6: a call that read and parsed the text of a 2xx response returns Ok
\* carrying the canonical response mapped from the parsed vendor response,
\* with a non-negative latency.
C6_SuccessReturnsCanonicalResponse ==
    \A c \in Calls :
        (/\ Done(c) /\ Got2xx(c) /\ IsSome(response[c])
         /\ from_str_CohereResponse(Unwrap(response[c])).kind = "Ok") =>
            /\ result[c].kind = "Ok"
            /\ IsCanonicalResponseOf(result[c].value,
                                     from_str_CohereResponse(Unwrap(response[c])).value)

\* C7: for a request that requires tools, no vendor body without the tools is
\* sent, and a call whose credential resolved returns a Config error.
C7_RequiredToolsNotDropped ==
    \A c \in Calls :
        request[c].tool_config = Some("required") =>
            /\ ~(IsSome(sent[c]) /\ "tools" \notin MemberNames(Unwrap(sent[c]).json))
            /\ (Done(c) /\ IsSome(api_key[c])) => ReturnedErr(c, "Config")

\* C8: a call issues at most one HTTP send, and a finished call whose
\* credential resolved has issued exactly one.
C8_ExactlyOneSend ==
    \A c \in Calls :
        /\ sends[c] <= 1
        /\ (Done(c) /\ IsSome(api_key[c])) => sends[c] = 1
        /\ (Done(c) /\ ~IsSome(api_key[c])) => sends[c] = 0

C8_Witness ==
    /\ Done(1)
    /\ sends[1] = 1
    /\ res[1] = None
    /\ ReturnedErr(1, "InferenceClient")

\* C9: a call whose send failed without a response returns
\* Err(InferenceClient) whose raw_request is the body that was sent, whose
\* status_code is the status of the transport error, and whose raw_response
\* is absent.
C9_TransportFailure ==
    \A c \in Calls :
        (Done(c) /\ IsSome(sent[c]) /\ res[c] = None) =>
            \E e \in SendErrors :
                result[c] =
                    Err([ variant       |-> "InferenceClient",
                          message       |-> << "Error sending request to Cohere: ", e.display >>,
                          status_code   |-> e.status,
                          raw_request   |-> Some(Unwrap(sent[c]).json),
                          raw_response  |-> None,
                          provider_type |-> "cohere" ])

C9_Witness ==
    /\ Done(1)
    /\ IsSome(sent[1])
    /\ res[1] = None
    /\ ReturnedErr(1, "InferenceClient")
    /\ result[1].details.status_code = Some(502)

\* C10: every finished call has returned Ok or a typed Err; no branch ends
\* without a returned value.
C10_TerminalOutcomeIsValue ==
    \A c \in Calls :
        Done(c) => result[c].kind \in {"Ok", "Err"}

\* the credential of the provider cannot be resolved against the table of call c
Unresolvable(c) ==
    \/ credentials.variant = "None"
    \/ /\ credentials.variant = "Dynamic"
       /\ credentials.key_name \notin DOMAIN dynamic_api_keys[c]

\* the last answer of the network to call c
LastAnswer(c) == answers[c][Len(answers[c])]

C13_StaticResolutionPure ==
    /\ [](\A i \in DOMAIN resolutions :
            /\ credentials.variant = "Static" => resolutions[i] = Ok(credentials.key)
            /\ resolutions[i] = resolutions[1])
    /\ [][/\ credentials' = credentials
          /\ dynamic_api_keys' = dynamic_api_keys]_vars

C13_Witness ==
    /\ credentials.variant = "Static"
    /\ DOMAIN dynamic_api_keys[1] = KeyNames
    /\ \A n \in KeyNames : dynamic_api_keys[1][n] # credentials.key
    /\ Len(resolutions) = MaxResolutions
    /\ resolutions[MaxResolutions] = Ok(credentials.key)

\* C14: a call whose non-2xx response body could not be read returns
\* Err(InferenceServer) that carries an empty or placeholder response text.
C14_UnreadableErrorBodyReported ==
    \A c \in Calls :
        (Done(c) /\ GotNon2xx(c) /\ response[c] = None) =>
            /\ ReturnedErr(c, "InferenceServer")
            /\ IsSome(result[c].details.raw_response)

\* C15: a call whose 2xx response body could not be read returns
\* Err(InferenceServer) built from the read error, with raw_response absent;
\* no text was bound and no parse diagnostic is reported.
C15_UnreadableBodyNoParse ==
    \A c \in Calls :
        (Done(c) /\ Got2xx(c) /\ response[c] = None) =>
            /\ ReturnedErr(c, "InferenceServer")
            /\ result[c].details.raw_response = None
            /\ result[c].details.message =
                  << "Error parsing text response: ", LastAnswer(c).error.display >>

C15_Witness ==
    /\ Done(1)
    /\ Got2xx(1)
    /\ response[1] = None
    /\ LastAnswer(1).await = "text"
    /\ ReturnedErr(1, "InferenceServer")

\* C16: every InferenceClient or InferenceServer error returned after the
\* send carries raw_request equal to the body that was sent and provider_type
\* "cohere".
C16_ErrorsCarryRequestBody ==
    \A c \in Calls :
        (/\ Done(c) /\ IsSome(sent[c]) /\ result[c].kind = "Err"
         /\ result[c].details.variant \in {"InferenceClient", "InferenceServer"}) =>
            /\ result[c].details.provider_type = "cohere"
            /\ IsSome(result[c].details.raw_request)
            /\ Len(Unwrap(result[c].details.raw_request)) = Len(Unwrap(sent[c]).json)
            /\ Unwrap(result[c].details.raw_request) = Unwrap(sent[c]).json

\* the key the provider's credential denotes for call c, from the call's own table
OwnKey(c) ==
    IF credentials.variant = "Static"
    THEN credentials.key
    ELSE dynamic_api_keys[c][credentials.key_name]

\* C11: the secret reaches the bearer authorization header of the request and
\* nothing else: two calls with the same request and the same answers from
\* the network, whatever secrets they resolved, return the same value and
\* sent the same body.
C11_SecretOnlyInAuthorization ==
    /\ \A c \in Calls :
          IsSome(sent[c]) =>
             Unwrap(sent[c]).authorization = << "Bearer", OwnKey(c).inner >>
    /\ \A c, d \in Calls :
          (/\ IsSome(api_key[c]) /\ IsSome(api_key[d])
           /\ request[c] = request[d]
           /\ answers[c] = answers[d]) =>
             /\ result[c] = result[d]
             /\ (IsSome(sent[c]) /\ IsSome(sent[d])) =>
                    Unwrap(sent[c]).json = Unwrap(sent[d]).json

C11_Witness ==
    /\ Done(1) /\ Done(2)
    /\ IsSome(api_key[1]) /\ IsSome(api_key[2])
    /\ api_key[1] # api_key[2]
    /\ request[1] = request[2]
    /\ answers[1] = answers[2]
    /\ ReturnedErr(1, "InferenceClient")
    /\ Unwrap(sent[1]).authorization # Unwrap(sent[2]).authorization

\* the locals and the arguments of call d are left as they are by a step
CallUntouched(d) ==
    /\ pc'[d] = pc[d]
    /\ request'[d] = request[d]
    /\ dynamic_api_keys'[d] = dynamic_api_keys[d]
    /\ request_body'[d] = request_body[d]
    /\ api_key'[d] = api_key[d]
    /\ sends'[d] = sends[d]
    /\ sent'[d] = sent[d]
    /\ res'[d] = res[d]
    /\ response'[d] = response[d]
    /\ result'[d] = result[d]
    /\ answers'[d] = answers[d]

\* C17: under every interleaving of concurrent calls, what a call resolved,
\* built, sent and returned is determined by its own request, its own table,
\* the provider's credential and the answers to its own awaits; a step of one
\* call changes neither the provider, nor any request or table, nor anything
\* of another call.
C17_CallsIndependent ==
    /\ [](\A c \in Calls :
            /\ IsSome(request_body[c]) =>
                  Ok(Unwrap(request_body[c])) = CohereRequest_new(model_name, request[c])
            /\ IsSome(api_key[c]) => (~Unresolvable(c) /\ Unwrap(api_key[c]) = OwnKey(c))
            /\ (Unresolvable(c) /\ Done(c)) => ReturnedErr(c, "ApiKeyMissing")
            /\ IsSome(sent[c]) =>
                  /\ Unwrap(sent[c]).authorization = << "Bearer", OwnKey(c).inner >>
                  /\ Unwrap(sent[c]).json = serde_json_to_string(Unwrap(request_body[c])))
    /\ [](\A c, d \in Calls :
            (/\ Done(c) /\ Done(d)
             /\ request[c] = request[d]
             /\ dynamic_api_keys[c] = dynamic_api_keys[d]
             /\ answers[c] = answers[d]) => result[c] = result[d])
    /\ [][/\ credentials' = credentials
          /\ request' = request
          /\ dynamic_api_keys' = dynamic_api_keys
          /\ \E c \in Calls : \A d \in Calls \ {c} : CallUntouched(d)]_vars

C17_Witness ==
    /\ pc[1] = "text"
    /\ pc[2] = "error_text"
    /\ request[1] # request[2]
    /\ api_key[1] # api_key[2]
    /\ IsSome(api_key[1]) /\ IsSome(api_key[2])

=============================================================================
